---------------------------- MODULE Spec2Model ----------------------------
(***************************************************************************)
(* The monitoring / retraining feedback loop of PropBot:                   *)
(*   MetricsCollector     src/backend/monitoring/metrics.py                *)
(*   DriftDetector        src/backend/monitoring/drift_detector.py         *)
(*   RetrainingTrigger    src/backend/retraining/trigger.py                *)
(*   NotificationManager  src/backend/notifications/alerts.py              *)
(*                                                                         *)
(* Numbers.  The Python code computes with floats; the model computes      *)
(* with exact integers and rationals:                                      *)
(*   - a latency (seconds, float) is an integer number of milliseconds;    *)
(*   - round(x, k) is the integer number of 10^-k units, rounded half to   *)
(*     even as Python's round does: success_rate_percent is in hundredths  *)
(*     of a percent, avg_response_time_seconds in milliseconds,            *)
(*     avg_properties_returned in tenths, drift_score in thousandths;      *)
(*   - an unrounded quotient (np.mean, a relative difference, the drift    *)
(*     score before rounding) is a fraction [n |-> _, d |-> _] in lowest   *)
(*     terms with d > 0;                                                   *)
(*   - wall-clock time (datetime.now()) is the variable now, in hours.     *)
(***************************************************************************)
EXTENDS Integers, Sequences, FiniteSets, TLC

VARIABLES
    \* MetricsCollector
    metrics,              \* self.metrics
    m_result,             \* value returned by the last get_metrics / check_health
    n_success,            \* history: record_api_call calls made with success = True
    n_failure,            \* history: record_api_call calls made with success = False
    m_varied,             \* history: calls whose (latency, count, type) were chosen freely
    m_last,               \* history: the (latency, count, type) of the last call
    c_pc,                 \* per request thread: the line of record_api_call it is at
    c_reg,                \* per request thread: the value it has read and not yet written back
    c_call,               \* per request thread: the arguments of its record_api_call
    \* DriftDetector
    window_size,          \* self.window_size
    recent_queries,       \* self.recent_queries
    baseline_stats,       \* self.baseline_stats
    drift_history,        \* self.drift_history
    d_result,             \* value returned by the last detect_drift
    recorded,             \* history: every record passed to record_query, in order
    d_switches,           \* history: how often the stream changed its kind of record
    d_before,             \* history: the detector's fields when the last detect_drift began
    \* RetrainingTrigger
    last_retraining,      \* self.last_retraining: None or a DateTime
    retraining_history,   \* self.retraining_history
    jobs_file,            \* the ledger /tmp/retraining_jobs.json: None (no file) or [jobs |-> list]
    t_result,             \* value returned by the last evaluate / trigger call
    t_input,              \* history: the (metrics, drift_info) pair being evaluated
    t_evals,              \* history: evaluate_retraining_need calls made
    t_triggers,           \* history: trigger_retraining_pipeline calls made
    launches,             \* history: the times at which the retraining script was started
    t_runner,             \* history: what the last trigger call did with the retraining script
    t_decisions,          \* history: every decision with should_retrain = True, in order
    t_before,             \* history: the trigger's fields and the ledger when the last call began
    \* NotificationManager
    notification_history, \* self.notification_history
    email_enabled,        \* self.email_enabled
    slack_enabled,        \* self.slack_enabled
    slack_webhook,        \* self.slack_webhook
    emails,               \* history: notifications handed to _send_email
    slack_posts,          \* history: notifications _send_slack tried to post
    dispatched,           \* history: every notification dispatched, in order
    n_result,             \* history: how the last _dispatch_notification call went
    \* the wall clock
    now                   \* datetime.now(), in hours

m_vars == <<metrics, m_result, n_success, n_failure, m_varied, m_last>>

c_vars == <<c_pc, c_reg, c_call>>

d_vars == <<window_size, recent_queries, baseline_stats, drift_history, d_result,
            recorded, d_switches, d_before>>

t_vars == <<last_retraining, retraining_history, jobs_file, t_result, t_input,
            t_evals, t_triggers, launches, t_runner, t_decisions, t_before>>

n_vars == <<notification_history, email_enabled, slack_enabled, slack_webhook,
            emails, slack_posts, dispatched, n_result>>

vars == <<m_vars, c_vars, d_vars, t_vars, n_vars, now>>

NoResult == [op |-> "none"]

\* Python's None.
None == [is_none |-> TRUE]

\* A datetime: the clock reading t.
DateTime(t) == [hours |-> t]

(***************************************************************************)
(* Arithmetic                                                              *)
(***************************************************************************)
Abs(x) == IF x < 0 THEN -x ELSE x

RECURSIVE GCD(_, _)
GCD(a, b) == IF b = 0 THEN a ELSE GCD(b, a % b)

\* The fraction n/d (d # 0) in lowest terms with a positive denominator.
Frac(n, d) ==
    LET s == IF d < 0 THEN -1 ELSE 1
        g == GCD(Abs(n), Abs(d))
    IN  [n |-> (s * n) \div g, d |-> (s * d) \div g]

FZero == [n |-> 0, d |-> 1]

FOne == [n |-> 1, d |-> 1]

FAdd(x, y) == Frac(x.n * y.d + y.n * x.d, x.d * y.d)

FLess(x, y) == x.n * y.d < y.n * x.d

FMin_Bug(x, y) == x

FMin(x, y) == IF FLess(y, x) THEN y ELSE x

FSub(x, y) == Frac(x.n * y.d - y.n * x.d, x.d * y.d)

FAbs(x) == [n |-> Abs(x.n), d |-> x.d]

\* x / y, y # 0
FDiv(x, y) == Frac(x.n * y.d, x.d * y.n)

RECURSIVE FSeqSum(_)
FSeqSum(s) == IF s = <<>> THEN FZero ELSE FAdd(Head(s), FSeqSum(Tail(s)))

\* round(): n/d (n >= 0, d > 0) to the nearest integer, a tie to the even one.
RoundHalfEven(n, d) ==
    LET f == n \div d
        r == n % d
    IN  IF 2 * r < d THEN f
        ELSE IF 2 * r > d THEN f + 1
        ELSE IF f % 2 = 0 THEN f ELSE f + 1

RECURSIVE SeqSum(_)
SeqSum(s) == IF s = <<>> THEN 0 ELSE Head(s) + SeqSum(Tail(s))

\* sum(d.values()) of a dict with integer values.
RECURSIVE DictSum(_)
DictSum(f) ==
    IF DOMAIN f = {} THEN 0
    ELSE LET k == CHOOSE x \in DOMAIN f : TRUE
         IN  f[k] + DictSum([y \in DOMAIN f \ {k} |-> f[y]])

\* s[-k:]
LastN(s, k) ==
    IF Len(s) <= k THEN s ELSE SubSeq(s, Len(s) - k + 1, Len(s))

\* s[:k]
FirstN(s, k) == IF Len(s) <= k THEN s ELSE SubSeq(s, 1, k)

(***************************************************************************)
(* MetricsCollector                                                        *)
(***************************************************************************)
\* Inputs of record_api_call.
ResponseTimes == {1000, 3000, 3001}

PropertyCounts == {0, 5}

QueryTypes == {"search", "price_check"}

\* At most MaxCalls calls are recorded; the first MaxVaried of them choose
\* latency, result count and type freely, the later ones repeat the last choice
\* (success is always free).
MaxCalls == 20

MaxVaried == 2

\* Request threads that call record_api_call at the same time, one call each.
NumThreads == 2

Threads == 1..NumThreads

\* The calls they make.
ThreadCalls ==
    {[success |-> success, response_time |-> 1000, properties_count |-> 5,
      query_type |-> query_type] : success \in BOOLEAN, query_type \in QueryTypes}

MetricsInit ==
    /\ metrics = [api_calls |-> 0,
                  successful_responses |-> 0,
                  failed_responses |-> 0,
                  avg_response_time |-> <<>>,
                  chromadb_queries |-> 0,
                  properties_returned |-> <<>>,
                  query_types |-> [k \in {} |-> 0]]
    /\ m_result = NoResult
    /\ n_success = 0
    /\ n_failure = 0
    /\ m_varied = 0
    /\ m_last = <<>>
    /\ c_pc = [t \in Threads |-> "idle"]
    /\ c_reg = [t \in Threads |-> 0]
    /\ c_call = [t \in Threads |-> None]

\* The body of record_api_call: the aggregate after one more call.
RecordedCall_Bug(m, success, response_time, properties_count, query_type) ==
    [m EXCEPT
        !.api_calls = @ + 1,
        !.successful_responses = IF success THEN @ + 1 ELSE @,
        !.failed_responses = IF success THEN @ ELSE @ + 1,
        !.avg_response_time = Append(@, response_time),
        !.properties_returned = IF success THEN Append(@, properties_count) ELSE @,
        !.chromadb_queries = IF success THEN @ + 1 ELSE @,
        !.query_types =
            [k \in DOMAIN @ \cup {query_type} |->
                (IF k \in DOMAIN @ THEN @[k] ELSE 0)
                + (IF k = query_type THEN 1 ELSE 0)]]

RecordedCall(m, success, response_time, properties_count, query_type) ==
    [m EXCEPT
        !.api_calls = @ + 1,
        !.successful_responses = IF success THEN @ + 1 ELSE @,
        !.failed_responses = IF success THEN @ ELSE @ + 1,
        !.avg_response_time = Append(@, response_time),
        !.properties_returned = Append(@, properties_count),
        !.chromadb_queries = @ + 1,
        !.query_types =
            [k \in DOMAIN @ \cup {query_type} |->
                (IF k \in DOMAIN @ THEN @[k] ELSE 0)
                + (IF k = query_type THEN 1 ELSE 0)]]

record_api_call(success, response_time, properties_count, query_type) ==
    /\ metrics.api_calls < MaxCalls
    /\ \/ m_varied < MaxVaried /\ m_varied' = m_varied + 1
       \/ /\ m_varied >= MaxVaried
          /\ m_varied' = m_varied
          /\ <<response_time, properties_count, query_type>> = m_last
    /\ metrics' = RecordedCall(metrics, success, response_time, properties_count, query_type)
    /\ n_success' = IF success THEN n_success + 1 ELSE n_success
    /\ n_failure' = IF success THEN n_failure ELSE n_failure + 1
    /\ m_last' = <<response_time, properties_count, query_type>>
    /\ m_result' = NoResult
    /\ UNCHANGED <<c_vars, d_vars, t_vars, n_vars, now>>

(***************************************************************************)
(* record_api_call as the request threads run it.  The collector has no     *)
(* lock; a statement  d[k] += 1  reads d[k], adds one and stores the sum,  *)
(* and another thread may run between the read and the store.  list.append *)
(* and a single dict store are one step each.                              *)
(***************************************************************************)
\* Thread t moves from line "from" to line "to".
Goto(t, from, to) ==
    /\ c_pc[t] = from
    /\ c_pc' = [c_pc EXCEPT ![t] = to]

ThreadFrame ==
    /\ UNCHANGED <<m_result, n_success, n_failure, m_varied, m_last>>
    /\ UNCHANGED <<d_vars, t_vars, n_vars, now>>

\* The counter the call's outcome is counted in.
OutcomeField(call) ==
    IF call.success THEN "successful_responses" ELSE "failed_responses"

begin_record_api_call(t, call) ==
    /\ Goto(t, "idle", "read_api_calls")
    /\ c_call' = [c_call EXCEPT ![t] = call]
    /\ UNCHANGED <<metrics, c_reg>>
    /\ ThreadFrame

\* self.metrics['api_calls'] += 1
read_api_calls(t) ==
    /\ Goto(t, "read_api_calls", "write_api_calls")
    /\ c_reg' = [c_reg EXCEPT ![t] = metrics.api_calls]
    /\ UNCHANGED <<metrics, c_call>>
    /\ ThreadFrame

write_api_calls(t) ==
    /\ Goto(t, "write_api_calls", "read_outcome")
    /\ metrics' = [metrics EXCEPT !.api_calls = c_reg[t] + 1]
    /\ UNCHANGED <<c_reg, c_call>>
    /\ ThreadFrame

\* self.metrics['successful_responses'] += 1, or 'failed_responses'
read_outcome(t) ==
    /\ Goto(t, "read_outcome", "write_outcome")
    /\ c_reg' = [c_reg EXCEPT ![t] = metrics[OutcomeField(c_call[t])]]
    /\ UNCHANGED <<metrics, c_call>>
    /\ ThreadFrame

write_outcome(t) ==
    /\ Goto(t, "write_outcome", "append_response_time")
    /\ metrics' = [metrics EXCEPT ![OutcomeField(c_call[t])] = c_reg[t] + 1]
    /\ UNCHANGED <<c_reg, c_call>>
    /\ ThreadFrame

\* self.metrics['avg_response_time'].append(response_time)
append_response_time(t) ==
    /\ Goto(t, "append_response_time", "append_properties_returned")
    /\ metrics' = [metrics EXCEPT
                      !.avg_response_time = Append(@, c_call[t].response_time)]
    /\ UNCHANGED <<c_reg, c_call>>
    /\ ThreadFrame

\* self.metrics['properties_returned'].append(properties_count)
append_properties_returned(t) ==
    /\ Goto(t, "append_properties_returned", "read_chromadb_queries")
    /\ metrics' = [metrics EXCEPT
                      !.properties_returned = Append(@, c_call[t].properties_count)]
    /\ UNCHANGED <<c_reg, c_call>>
    /\ ThreadFrame

\* self.metrics['chromadb_queries'] += 1
read_chromadb_queries(t) ==
    /\ Goto(t, "read_chromadb_queries", "write_chromadb_queries")
    /\ c_reg' = [c_reg EXCEPT ![t] = metrics.chromadb_queries]
    /\ UNCHANGED <<metrics, c_call>>
    /\ ThreadFrame

write_chromadb_queries(t) ==
    /\ Goto(t, "write_chromadb_queries", "check_query_type")
    /\ metrics' = [metrics EXCEPT !.chromadb_queries = c_reg[t] + 1]
    /\ UNCHANGED <<c_reg, c_call>>
    /\ ThreadFrame

\* if query_type not in self.metrics['query_types']:
check_query_type(t) ==
    /\ c_pc[t] = "check_query_type"
    /\ c_pc' = [c_pc EXCEPT ![t] =
                  IF c_call[t].query_type \notin DOMAIN metrics.query_types
                  THEN "init_query_type" ELSE "read_query_type"]
    /\ UNCHANGED <<metrics, c_reg, c_call>>
    /\ ThreadFrame

\*     self.metrics['query_types'][query_type] = 0
init_query_type(t) ==
    /\ Goto(t, "init_query_type", "read_query_type")
    /\ metrics' = [metrics EXCEPT
                      !.query_types =
                          [k \in DOMAIN @ \cup {c_call[t].query_type} |->
                              IF k = c_call[t].query_type THEN 0 ELSE @[k]]]
    /\ UNCHANGED <<c_reg, c_call>>
    /\ ThreadFrame

\* self.metrics['query_types'][query_type] += 1
read_query_type(t) ==
    /\ Goto(t, "read_query_type", "write_query_type")
    /\ c_reg' = [c_reg EXCEPT ![t] = metrics.query_types[c_call[t].query_type]]
    /\ UNCHANGED <<metrics, c_call>>
    /\ ThreadFrame

write_query_type(t) ==
    /\ Goto(t, "write_query_type", "done")
    /\ metrics' = [metrics EXCEPT
                      !.query_types = [@ EXCEPT ![c_call[t].query_type] = c_reg[t] + 1]]
    /\ UNCHANGED <<c_reg, c_call>>
    /\ ThreadFrame

ThreadsNext ==
    \E t \in Threads :
        \/ \E call \in ThreadCalls : begin_record_api_call(t, call)
        \/ read_api_calls(t)
        \/ write_api_calls(t)
        \/ read_outcome(t)
        \/ write_outcome(t)
        \/ append_response_time(t)
        \/ append_properties_returned(t)
        \/ read_chromadb_queries(t)
        \/ write_chromadb_queries(t)
        \/ check_query_type(t)
        \/ init_query_type(t)
        \/ read_query_type(t)
        \/ write_query_type(t)

\* success_rate_percent: round(successful_responses / api_calls * 100, 2), in
\* hundredths of a percent; 0 when no call was recorded.
success_rate_percent_Bug(m) ==
    IF m.api_calls > 0
    THEN RoundHalfEven(10000 * m.successful_responses, m.api_calls + 1)
    ELSE 0

success_rate_percent_NoCalls(m) ==
    IF m.api_calls > 0
    THEN RoundHalfEven(10000 * m.successful_responses, m.api_calls)
    ELSE 10000

success_rate_percent(m) ==
    IF m.api_calls > 0
    THEN RoundHalfEven(10000 * m.successful_responses, m.api_calls)
    ELSE 0

\* avg_response_time_seconds: round(mean latency, 3), in milliseconds.
avg_response_time_seconds(m) ==
    IF m.avg_response_time # <<>>
    THEN RoundHalfEven(SeqSum(m.avg_response_time), Len(m.avg_response_time))
    ELSE 0

\* avg_properties_returned: round(mean result count, 1), in tenths.
avg_properties_returned(m) ==
    IF m.properties_returned # <<>>
    THEN RoundHalfEven(10 * SeqSum(m.properties_returned), Len(m.properties_returned))
    ELSE 0

\* The snapshot get_metrics returns (uptime_seconds and timestamp, which no
\* decision reads, are left out).
MetricsSnapshot(m) ==
    [total_api_calls |-> m.api_calls,
     successful_responses |-> m.successful_responses,
     failed_responses |-> m.failed_responses,
     success_rate_percent |-> success_rate_percent(m),
     avg_response_time_seconds |-> avg_response_time_seconds(m),
     avg_properties_returned |-> avg_properties_returned(m),
     chromadb_queries |-> m.chromadb_queries,
     query_types |-> m.query_types]

get_metrics ==
    /\ m_result' = [op |-> "get_metrics", value |-> MetricsSnapshot(metrics)]
    /\ UNCHANGED <<metrics, n_success, n_failure, m_varied, m_last>>
    /\ UNCHANGED <<c_vars, d_vars, t_vars, n_vars, now>>

\* Health thresholds of check_health: 95 %, 3.0 s.
HealthMinSuccessRate == 9500

HealthMaxResponseTime == 3000

\* The issues list check_health builds, in the order of its three checks.
HealthIssues_Bug(s) ==
    (IF s.success_rate_percent <= HealthMinSuccessRate
        THEN << <<"Low success rate", s.success_rate_percent>> >> ELSE <<>>)
    \o (IF s.avg_response_time_seconds > HealthMaxResponseTime
        THEN << <<"High response time", s.avg_response_time_seconds>> >> ELSE <<>>)
    \o (IF s.total_api_calls > 0 /\ s.successful_responses = 0
        THEN << <<"No successful responses">> >> ELSE <<>>)

HealthIssues(s) ==
    (IF s.success_rate_percent < HealthMinSuccessRate
        THEN << <<"Low success rate", s.success_rate_percent>> >> ELSE <<>>)
    \o (IF s.avg_response_time_seconds > HealthMaxResponseTime
        THEN << <<"High response time", s.avg_response_time_seconds>> >> ELSE <<>>)
    \o (IF s.total_api_calls > 0 /\ s.successful_responses = 0
        THEN << <<"No successful responses">> >> ELSE <<>>)

\* The healthy flag: cleared by each of the three checks that fires.
HealthFlag(s) ==
    LET h1 == IF s.success_rate_percent < HealthMinSuccessRate THEN FALSE ELSE TRUE
        h2 == IF s.avg_response_time_seconds > HealthMaxResponseTime THEN FALSE ELSE h1
        h3 == IF s.total_api_calls > 0 /\ s.successful_responses = 0 THEN FALSE ELSE h2
    IN  h3

HealthReport(m) ==
    LET s == MetricsSnapshot(m)
    IN  [healthy |-> HealthFlag(s), issues |-> HealthIssues(s), metrics |-> s]

check_health ==
    /\ m_result' = [op |-> "check_health", value |-> HealthReport(metrics)]
    /\ UNCHANGED <<metrics, n_success, n_failure, m_varied, m_last>>
    /\ UNCHANGED <<c_vars, d_vars, t_vars, n_vars, now>>

MetricsNext ==
    \/ \E success \in BOOLEAN, response_time \in ResponseTimes,
          properties_count \in PropertyCounts, query_type \in QueryTypes :
            record_api_call(success, response_time, properties_count, query_type)
    \/ get_metrics
    \/ check_health

(***************************************************************************)
(* DriftDetector                                                           *)
(***************************************************************************)
\* Baseline and current statistics are taken over this many records.
MinSamples == 50

\* The module's detector: DriftDetector(window_size=100, drift_threshold=0.3).
DefaultWindowSize == 100

WindowSizes == {DefaultWindowSize}

drift_threshold == Frac(3, 10)

\* The kinds of feature record the query stream is made of.  "query" is the
\* length of the query text (the only use made of it), response_time is in
\* milliseconds, neighborhood "" stands for a record without that key.
SearchA ==
    [query |-> 10, properties_count |-> 5, response_time |-> 1000,
     query_type |-> "search", neighborhood |-> "Back Bay"]

PriceA ==
    [query |-> 10, properties_count |-> 5, response_time |-> 1000,
     query_type |-> "price_check", neighborhood |-> ""]

PriceB ==
    [query |-> 20, properties_count |-> 5, response_time |-> 1000,
     query_type |-> "price_check", neighborhood |-> "Back Bay"]

SearchZero ==
    [query |-> 0, properties_count |-> 0, response_time |-> 0,
     query_type |-> "search", neighborhood |-> ""]

Kinds == {SearchA, PriceA, PriceB, SearchZero}

\* A record with negative values (a result count and a latency below zero).
Refund ==
    [query |-> 10, properties_count |-> -5, response_time |-> -1000,
     query_type |-> "price_check", neighborhood |-> ""]

\* Detectors of other capacities, fed with zero and negative values too.
ConfiguredWindowSizes == {30, 50, DefaultWindowSize}

SignedKinds == {SearchA, SearchZero, Refund}

\* The stream: at most MaxRecords records; it changes its kind of record at
\* most MaxSwitches times, and only after a multiple of SwitchStride records.
\* detect_drift is polled after every DetectEvery records, until MaxDrifts
\* reports are in the drift history.
MaxRecords == 150

MaxSwitches == 1

SwitchStride == 30

DetectEvery == 10

MaxDrifts == 1

\* DriftDetector(window_size) for a window_size of the given set.
DetectorInit(sizes) ==
    /\ window_size \in sizes
    /\ recent_queries = <<>>
    /\ baseline_stats = None
    /\ drift_history = <<>>
    /\ d_result = NoResult
    /\ recorded = <<>>
    /\ d_switches = 0
    /\ d_before = None

DriftInit == DetectorInit(WindowSizes)

\* np.mean of a list of integers (the list is not empty).
Mean(xs) == Frac(SeqSum(xs), Len(xs))

\* np.std of a list of integers, kept as its square (the variance).
Variance(xs) ==
    LET n == Len(xs)
        sq == [i \in 1..n |-> xs[i] * xs[i]]
    IN  Frac(n * SeqSum(sq) - SeqSum(xs) * SeqSum(xs), n * n)

\* dict(Counter(xs))
Counter(xs) ==
    [k \in {xs[i] : i \in 1..Len(xs)} |-> Cardinality({i \in 1..Len(xs) : xs[i] = k})]

_calculate_statistics(queries) ==
    LET n == Len(queries)
        query_lengths == [i \in 1..n |-> queries[i].query]
        properties_counts == [i \in 1..n |-> queries[i].properties_count]
        response_times == [i \in 1..n |-> queries[i].response_time]
        query_types == [i \in 1..n |-> queries[i].query_type]
        neighborhoods == SelectSeq([i \in 1..n |-> queries[i].neighborhood],
                                   LAMBDA h : h # "")
    IN  [avg_query_length |-> IF n > 0 THEN Mean(query_lengths) ELSE FZero,
         std_query_length |-> IF n > 0 THEN Variance(query_lengths) ELSE FZero,
         avg_properties_returned |-> IF n > 0 THEN Mean(properties_counts) ELSE FZero,
         avg_response_time |-> IF n > 0 THEN Mean(response_times) ELSE FZero,
         query_type_distribution |-> Counter(query_types),
         neighborhood_distribution |-> Counter(neighborhoods),
         total_queries |-> n]

RECURSIVE AbsDiffSum(_, _, _, _, _)
AbsDiffSum(keys, dist1, total1, dist2, total2) ==
    IF keys = {} THEN FZero
    ELSE LET key == CHOOSE k \in keys : TRUE
             p == IF key \in DOMAIN dist1 THEN Frac(dist1[key], total1) ELSE FZero
             q == IF key \in DOMAIN dist2 THEN Frac(dist2[key], total2) ELSE FZero
         IN  FAdd(FAbs(FSub(p, q)),
                  AbsDiffSum(keys \ {key}, dist1, total1, dist2, total2))

_distribution_difference(dist1, dist2) ==
    LET total1 == DictSum(dist1)
        total2 == DictSum(dist2)
    IN  IF total1 = 0 \/ total2 = 0 THEN FZero
        ELSE FDiv(AbsDiffSum(DOMAIN dist1 \cup DOMAIN dist2, dist1, total1, dist2, total2),
                  Frac(2, 1))

\* The contribution of one numerical feature: min(|current - baseline| / baseline, 1.0),
\* nothing when the baseline value is not positive.
FeatureScore_Bug(baseline_val, current_val) ==
    IF baseline_val.n > 0
    THEN << FMin(FDiv(FAbs(FSub(current_val, baseline_val)), baseline_val), FOne) >>
    ELSE << FOne >>

FeatureScore(baseline_val, current_val) ==
    IF baseline_val.n > 0
    THEN << FMin(FDiv(FAbs(FSub(current_val, baseline_val)), baseline_val), FOne) >>
    ELSE <<>>

\* The type-histogram contribution, nothing when either histogram is empty.
TypeScore(baseline, current) ==
    IF DOMAIN baseline.query_type_distribution # {}
       /\ DOMAIN current.query_type_distribution # {}
    THEN << _distribution_difference(baseline.query_type_distribution,
                                     current.query_type_distribution) >>
    ELSE <<>>

\* The list "scores" of _calculate_drift_score.
DriftScores(baseline, current) ==
    FeatureScore(baseline.avg_query_length, current.avg_query_length)
    \o FeatureScore(baseline.avg_properties_returned, current.avg_properties_returned)
    \o FeatureScore(baseline.avg_response_time, current.avg_response_time)
    \o TypeScore(baseline, current)

RECURSIVE FSeqMax(_)
FSeqMax(s) ==
    IF s = <<>> THEN FZero
    ELSE LET m == FSeqMax(Tail(s)) IN IF FLess(m, Head(s)) THEN Head(s) ELSE m

_calculate_drift_score_Bug(baseline, current) ==
    FSeqMax(DriftScores(baseline, current))

_calculate_drift_score(baseline, current) ==
    LET scores == DriftScores(baseline, current)
    IN  IF scores # <<>> THEN FDiv(FSeqSum(scores), Frac(Len(scores), 1)) ELSE FZero

\* detect_drift's guard: at least 50 records in the window.
HasEnoughData_Bug(queries) == Len(queries) > MinSamples

HasEnoughData(queries) == Len(queries) >= MinSamples

\* record_query's guard for setting the baseline.
NeedsBaseline_Bug(baseline, queries) == Len(queries) >= MinSamples

NeedsBaseline(baseline, queries) == baseline = None /\ Len(queries) >= MinSamples

\* recent_queries after record_query has appended and trimmed.
Windowed_Bug(queries, size) ==
    IF Len(queries) > size THEN FirstN(queries, size) ELSE queries

Windowed(queries, size) ==
    IF Len(queries) > size THEN LastN(queries, size) ELSE queries

record_query(query_data) ==
    /\ Len(recorded) < MaxRecords
    /\ \/ recorded = <<>>
       \/ /\ recorded # <<>>
          /\ [recorded[Len(recorded)] EXCEPT !.timestamp = 0]
                = [query_data EXCEPT !.timestamp = 0]
       \/ /\ recorded # <<>>
          /\ d_switches < MaxSwitches
          /\ Len(recorded) % SwitchStride = 0
    /\ d_switches' =
          IF recorded # <<>>
             /\ [recorded[Len(recorded)] EXCEPT !.timestamp = 0]
                    # [query_data EXCEPT !.timestamp = 0]
          THEN d_switches + 1 ELSE d_switches
    /\ recent_queries' = Windowed(Append(recent_queries, query_data), window_size)
    /\ baseline_stats' =
          IF NeedsBaseline(baseline_stats, recent_queries')
          THEN _calculate_statistics(recent_queries')
          ELSE baseline_stats
    /\ recorded' = Append(recorded, query_data)
    /\ d_result' = NoResult
    /\ d_before' = None
    /\ UNCHANGED <<window_size, drift_history>>
    /\ UNCHANGED <<m_vars, c_vars, t_vars, n_vars, now>>

\* datetime.isoformat() and datetime.fromisoformat(): the text carries every
\* field of the datetime, and reading it gives the datetime back.
isoformat(t) == [iso |-> t.hours]

fromisoformat(text) == DateTime(text.iso)

\* What detect_drift returns, given the baseline it compares against.
DriftReport(queries, baseline) ==
    LET current_stats == _calculate_statistics(LastN(queries, MinSamples))
        drift_score == _calculate_drift_score(baseline, current_stats)
    IN  [drift_detected |-> FLess(drift_threshold, drift_score),
         drift_score |-> RoundHalfEven(1000 * drift_score.n, drift_score.d),
         threshold |-> drift_threshold,
         baseline_stats |-> baseline,
         current_stats |-> current_stats,
         timestamp |-> isoformat(DateTime(now))]

InsufficientData(queries) ==
    [drift_detected |-> FALSE,
     reason |-> "Insufficient data for drift detection",
     samples |-> Len(queries)]

\* drift_history after a definite report: recorded when drift was detected.
RecordedDrift_Bug(history, result) == Append(history, result)

RecordedDrift(history, result) ==
    IF result.drift_detected THEN Append(history, result) ELSE history

\* The body of detect_drift().
DetectDrift ==
    /\ d_before' = [recent_queries |-> recent_queries,
                    baseline_stats |-> baseline_stats,
                    drift_history |-> drift_history]
    /\ IF ~HasEnoughData(recent_queries)
       THEN /\ d_result' = [op |-> "detect_drift", value |-> InsufficientData(recent_queries)]
            /\ UNCHANGED <<baseline_stats, drift_history>>
       ELSE /\ baseline_stats' =
                  IF baseline_stats = None
                  THEN _calculate_statistics(FirstN(recent_queries, MinSamples))
                  ELSE baseline_stats
            /\ LET result == DriftReport(recent_queries, baseline_stats')
               IN  /\ d_result' = [op |-> "detect_drift", value |-> result]
                   /\ drift_history' = RecordedDrift(drift_history, result)
    /\ UNCHANGED <<window_size, recent_queries, recorded, d_switches>>
    /\ UNCHANGED <<m_vars, c_vars, t_vars, n_vars, now>>

\* detect_drift, polled after every DetectEvery records until MaxDrifts
\* reports are in the drift history.
detect_drift ==
    /\ Len(recorded) % DetectEvery = 0
    /\ Len(drift_history) < MaxDrifts
    /\ DetectDrift

ConfiguredDriftNext ==
    \/ \E kind \in SignedKinds :
          record_query([query |-> kind.query,
                        properties_count |-> kind.properties_count,
                        response_time |-> kind.response_time,
                        query_type |-> kind.query_type,
                        neighborhood |-> kind.neighborhood,
                        timestamp |-> now])
    \/ detect_drift

\* should_trigger_retraining: at least 3 reports of the drift history are
\* younger than 24 hours.
RecentDriftHours == 24

MinRecentDrifts == 3

recent_drifts(history, t) ==
    SelectSeq(history,
              LAMBDA d : fromisoformat(d.timestamp).hours > t.hours - RecentDriftHours)

ShouldTriggerRetraining_Bug(history, t) ==
    Len(recent_drifts(history, t)) > MinRecentDrifts

ShouldTriggerRetraining(history, t) ==
    Len(recent_drifts(history, t)) >= MinRecentDrifts

should_trigger_retraining ==
    /\ d_result' = [op |-> "should_trigger_retraining",
                    value |-> ShouldTriggerRetraining(drift_history, DateTime(now)),
                    at |-> now]
    /\ d_before' = None
    /\ UNCHANGED <<window_size, recent_queries, baseline_stats, drift_history,
                   recorded, d_switches>>
    /\ UNCHANGED <<m_vars, c_vars, t_vars, n_vars, now>>

\* A stream for watching the drift history over time: records of one kind,
\* then, after twice SwitchStride of them, records of another kind, up to
\* TimedRecords; from then on the clock runs and detect_drift is called until
\* MaxTimedDrifts reports are in the drift history.
TimedRecords == 110

MaxTimedDrifts == 4

TimedKind == IF Len(recorded) < 2 * SwitchStride THEN SearchA ELSE PriceB

record_timed_query ==
    /\ Len(recorded) < TimedRecords
    /\ record_query([query |-> TimedKind.query,
                     properties_count |-> TimedKind.properties_count,
                     response_time |-> TimedKind.response_time,
                     query_type |-> TimedKind.query_type,
                     neighborhood |-> TimedKind.neighborhood,
                     timestamp |-> now])

detect_timed_drift ==
    /\ Len(recorded) = TimedRecords
    /\ Len(drift_history) < MaxTimedDrifts
    /\ DetectDrift

DriftNext ==
    \/ \E kind \in Kinds :
          record_query([query |-> kind.query,
                        properties_count |-> kind.properties_count,
                        response_time |-> kind.response_time,
                        query_type |-> kind.query_type,
                        neighborhood |-> kind.neighborhood,
                        timestamp |-> now])
    \/ detect_drift

(***************************************************************************)
(* RetrainingTrigger                                                       *)
(***************************************************************************)
\* Configuration set by __init__.
performance_threshold == Frac(85, 100)

trigger_drift_threshold == 300

min_samples_for_evaluation == 100

min_retraining_interval_hours == 24

\* The literals of checks 3 and 4: 15 % errors, 5.0 s.
MaxErrorRate == Frac(15, 100)

MaxResponseTime == 5000

\* Cap of retraining_history.
MaxRetrainingHistory == 100

\* Metrics snapshots passed to evaluate_retraining_need: the snapshot of a
\* collector that has seen <<total, failed>> calls with the given mean latency
\* (milliseconds).
CallCounts ==
    {<<0, 0, 0>>, <<50, 0, 1000>>, <<50, 0, 5000>>, <<50, 0, 5001>>, <<50, 10, 1000>>,
     <<100, 15, 1000>>, <<100, 16, 1000>>, <<100, 16, 5001>>, <<100000, 15001, 1000>>}

SnapshotOf(total, failed, latency) ==
    [total_api_calls |-> total,
     successful_responses |-> total - failed,
     failed_responses |-> failed,
     success_rate_percent |->
        IF total > 0 THEN RoundHalfEven(10000 * (total - failed), total) ELSE 0,
     avg_response_time_seconds |-> IF total > 0 THEN latency ELSE 0]

MetricsInputs == {SnapshotOf(c[1], c[2], c[3]) : c \in CallCounts}

\* Drift reports passed to it: the insufficient-data result and definite
\* reports (the fields evaluate_retraining_need reads, and the threshold).
DriftInputs ==
    {[drift_detected |-> FALSE, reason |-> "Insufficient data for drift detection",
      samples |-> 10],
     [drift_detected |-> FALSE, drift_score |-> 250, threshold |-> drift_threshold],
     [drift_detected |-> TRUE, drift_score |-> 300, threshold |-> drift_threshold],
     [drift_detected |-> TRUE, drift_score |-> 500, threshold |-> drift_threshold]}

Reasons == {"automated retraining"}

\* The clock advances in steps of TickHours up to MaxClock; at most MaxEvals
\* evaluations (all of the same inputs) and MaxTriggers pipeline triggers.
TickHours == 12

MaxClock == 36

MaxEvals == 2

MaxTriggers == 2

TriggerInit ==
    /\ last_retraining = None
    /\ retraining_history = <<>>
    /\ jobs_file = None
    /\ t_result = NoResult
    /\ t_input = None
    /\ t_evals = 0
    /\ t_triggers = 0
    /\ launches = <<>>
    /\ t_runner = "none"
    /\ t_decisions = <<>>
    /\ t_before = None

\* dict.get(key, default)
Get(d, key, default) == IF key \in DOMAIN d THEN d[key] ELSE default

\* The cool-down test: last_retraining is set and fewer than
\* min_retraining_interval_hours have passed since.
TooSoon_Bug(last, t) ==
    last # None /\ t.hours - last.hours <= min_retraining_interval_hours

TooSoon_Skipped(last, t) == FALSE

TooSoon(last, t) ==
    last # None /\ t.hours - last.hours < min_retraining_interval_hours

\* Check 1: success_rate_percent / 100 < performance_threshold.
PerformanceBelow_Bug(m) ==
    FLess(Frac(Get(m, "success_rate_percent", 10000), 100), performance_threshold)

PerformanceBelow(m) ==
    FLess(Frac(Get(m, "success_rate_percent", 10000), 10000), performance_threshold)

\* Check 2: drift_detected and drift_score > drift_threshold.
SignificantDrift(d) ==
    /\ Get(d, "drift_detected", FALSE)
    /\ Get(d, "drift_score", 0) > trigger_drift_threshold

\* Check 3: enough samples and failed / total > 0.15.
HighErrorRate(m) ==
    LET total_calls == Get(m, "total_api_calls", 0)
        failed_responses == Get(m, "failed_responses", 0)
    IN  /\ total_calls >= min_samples_for_evaluation
        /\ FLess(MaxErrorRate, Frac(failed_responses, total_calls))

\* Check 4: avg_response_time_seconds > 5.0.
ResponseTimeDegraded_Bug(m) ==
    Get(m, "avg_response_time_seconds", 0) >= MaxResponseTime

ResponseTimeDegraded(m) ==
    Get(m, "avg_response_time_seconds", 0) > MaxResponseTime

\* The reasons list the four checks build, in their order.
EvaluationReasons_Bug(m, d) ==
    IF PerformanceBelow(m)
    THEN << <<"Performance below threshold", Get(m, "success_rate_percent", 10000)>> >>
    ELSE IF SignificantDrift(d)
    THEN << <<"Significant data drift detected", Get(d, "drift_score", 0)>> >>
    ELSE IF HighErrorRate(m)
    THEN << <<"High error rate",
              Frac(Get(m, "failed_responses", 0), Get(m, "total_api_calls", 0))>> >>
    ELSE IF ResponseTimeDegraded(m)
    THEN << <<"Response time degraded", Get(m, "avg_response_time_seconds", 0)>> >>
    ELSE <<>>

EvaluationReasons(m, d) ==
    (IF PerformanceBelow(m)
        THEN << <<"Performance below threshold",
                  Get(m, "success_rate_percent", 10000)>> >> ELSE <<>>)
    \o (IF SignificantDrift(d)
        THEN << <<"Significant data drift detected", Get(d, "drift_score", 0)>> >>
        ELSE <<>>)
    \o (IF HighErrorRate(m)
        THEN << <<"High error rate",
                  Frac(Get(m, "failed_responses", 0), Get(m, "total_api_calls", 0))>> >>
        ELSE <<>>)
    \o (IF ResponseTimeDegraded(m)
        THEN << <<"Response time degraded", Get(m, "avg_response_time_seconds", 0)>> >>
        ELSE <<>>)

\* The should_retrain flag: set by each of the four checks that fires.
ShouldRetrain(m, d) ==
    LET s1 == IF PerformanceBelow(m) THEN TRUE ELSE FALSE
        s2 == IF SignificantDrift(d) THEN TRUE ELSE s1
        s3 == IF HighErrorRate(m) THEN TRUE ELSE s2
        s4 == IF ResponseTimeDegraded(m) THEN TRUE ELSE s3
    IN  s4

\* The result of a full evaluation (outside the cool-down).
Evaluation(m, d, t) ==
    LET total_calls == Get(m, "total_api_calls", 0)
    IN  [should_retrain |-> ShouldRetrain(m, d),
         reasons |-> EvaluationReasons(m, d),
         timestamp |-> t,
         metrics_evaluated |->
            [success_rate |-> Frac(Get(m, "success_rate_percent", 10000), 10000),
             drift_score |-> Get(d, "drift_score", 0),
             error_rate |-> IF total_calls > 0
                            THEN Frac(Get(m, "failed_responses", 0), total_calls)
                            ELSE FZero,
             avg_response_time |-> Get(m, "avg_response_time_seconds", 0)]]

TooSoonResult(last, t) ==
    [should_retrain |-> FALSE,
     reasons |-> << <<"Too soon since last retraining">> >>,
     time_since_last_hours |-> t.hours - last.hours]

\* retraining_history after _record_retraining_event(event).
_record_retraining_event_Bug(history, event) ==
    IF history = <<>> THEN <<event>> ELSE history

_record_retraining_event(history, event) ==
    IF Len(Append(history, event)) > MaxRetrainingHistory
    THEN LastN(Append(history, event), MaxRetrainingHistory)
    ELSE Append(history, event)

\* retraining_history after a decision: recorded when should_retrain is set.
RecordedDecision_Bug(history, result) == _record_retraining_event(history, result)

RecordedDecision(history, result) ==
    IF result.should_retrain
    THEN _record_retraining_event(history, result)
    ELSE history

\* The body of evaluate_retraining_need(metrics, drift_info).
\* The trigger's fields and the ledger as they are when a call begins.
TriggerState ==
    [last_retraining |-> last_retraining,
     retraining_history |-> retraining_history,
     jobs_file |-> jobs_file]

EvaluateRetrainingNeed(m, d) ==
    /\ t_input' = [metrics |-> m, drift_info |-> d]
    /\ t_before' = TriggerState
    /\ t_evals' = t_evals + 1
    /\ IF TooSoon(last_retraining, DateTime(now))
       THEN /\ t_result' = [op |-> "evaluate",
                            value |-> TooSoonResult(last_retraining, DateTime(now))]
            /\ UNCHANGED <<retraining_history, t_decisions>>
       ELSE LET result == Evaluation(m, d, now)
            IN  /\ t_result' = [op |-> "evaluate", value |-> result]
                /\ retraining_history' = RecordedDecision(retraining_history, result)
                /\ t_decisions' = IF result.should_retrain
                                  THEN Append(t_decisions, result)
                                  ELSE t_decisions
    /\ UNCHANGED <<last_retraining, jobs_file, launches, t_triggers, t_runner>>
    /\ UNCHANGED <<m_vars, c_vars, d_vars, n_vars, now>>

\* evaluate_retraining_need, at most MaxEvals times and always on the same
\* inputs.
evaluate_retraining_need(m, d) ==
    /\ t_evals < MaxEvals
    /\ t_input \in {None, [metrics |-> m, drift_info |-> d]}
    /\ EvaluateRetrainingNeed(m, d)

\* The job descriptor trigger_retraining_pipeline builds.
RetrainingJob(reason, t) ==
    [job_id |-> <<"retrain", t>>,
     triggered_at |-> t,
     reason |-> reason,
     status |-> "initiated",
     steps |-> <<"data_collection", "preprocessing", "training", "validation",
                 "deployment">>]

\* The ledger after _save_retraining_job(job): the job is appended to the list
\* read from the file (an absent file is an empty list); when reading or
\* writing raises, the error is logged and the file keeps what it held.
_save_retraining_job(file, job, io_ok) ==
    IF io_ok
    THEN [jobs |-> Append(IF file = None THEN <<>> ELSE file.jobs, job)]
    ELSE file

\* Number of job descriptors in the ledger.
LedgerSize(file) == IF file = None THEN 0 ELSE Len(file.jobs)

\* What the call does with the retraining script: not found (the job is
\* recorded but not executed), started by Popen, or Popen raised.
RunnerOutcome(script_exists, popen_ok) ==
    IF ~script_exists THEN "missing"
    ELSE IF popen_ok THEN "launched" ELSE "failed"

\* trigger_retraining_pipeline(reason).  io_ok: the ledger could be read and
\* written; script_exists: os.path.exists(script_path); popen_ok: Popen did not
\* raise.  A raising Popen is caught: the call returns False.
PopenRaises(script_exists, popen_ok) == script_exists /\ ~popen_ok

\* last_retraining after the call made at time t: the assignment of line 153
\* is skipped when the try block was left by an exception.
LastRetrainingAfter_Bug(last, raised, t) == DateTime(t)

LastRetrainingAfter(last, raised, t) == IF raised THEN last ELSE DateTime(t)

trigger_retraining_pipeline(reason, io_ok, script_exists, popen_ok) ==
    /\ t_triggers < MaxTriggers
    /\ t_triggers' = t_triggers + 1
    /\ jobs_file' = _save_retraining_job(jobs_file, RetrainingJob(reason, now), io_ok)
    /\ t_runner' = RunnerOutcome(script_exists, popen_ok)
    /\ t_before' = TriggerState
    /\ launches' = IF script_exists /\ popen_ok THEN Append(launches, now) ELSE launches
    /\ last_retraining' = LastRetrainingAfter(last_retraining,
                                              PopenRaises(script_exists, popen_ok), now)
    /\ t_result' = [op |-> "trigger", value |-> ~PopenRaises(script_exists, popen_ok)]
    /\ UNCHANGED <<retraining_history, t_input, t_evals, t_decisions>>
    /\ UNCHANGED <<m_vars, c_vars, d_vars, n_vars, now>>

\* Time passes.
Tick ==
    /\ now + TickHours <= MaxClock
    /\ now' = now + TickHours
    /\ t_result' = NoResult
    /\ t_before' = None
    /\ UNCHANGED <<last_retraining, retraining_history, jobs_file, t_input, t_evals,
                   t_triggers, launches, t_runner, t_decisions>>
    /\ UNCHANGED <<m_vars, c_vars, d_vars, n_vars>>

\* A long run of evaluations, for watching retraining_history fill up: at most
\* MaxHistoryEvals evaluations, the first MaxFreeEvals on any of DecisionInputs,
\* the later ones going round them in order.  Two of the three inputs call for
\* retraining (for different reasons), one does not.
MaxHistoryEvals == 152

MaxFreeEvals == 1

DecisionInputs ==
    <<[metrics |-> SnapshotOf(50, 10, 1000),
       drift_info |-> [drift_detected |-> FALSE, drift_score |-> 250,
                       threshold |-> drift_threshold]],
      [metrics |-> SnapshotOf(50, 0, 1000),
       drift_info |-> [drift_detected |-> FALSE, drift_score |-> 250,
                       threshold |-> drift_threshold]],
      [metrics |-> SnapshotOf(50, 0, 5001),
       drift_info |-> [drift_detected |-> TRUE, drift_score |-> 500,
                       threshold |-> drift_threshold]]>>

evaluate_in_turn(i) ==
    /\ t_evals < MaxHistoryEvals
    /\ \/ t_evals < MaxFreeEvals
       \/ /\ t_input # None
          /\ \E j \in DOMAIN DecisionInputs :
                /\ DecisionInputs[j] = t_input
                /\ i = (j % Len(DecisionInputs)) + 1
    /\ EvaluateRetrainingNeed(DecisionInputs[i].metrics, DecisionInputs[i].drift_info)

DecisionsNext == \E i \in DOMAIN DecisionInputs : evaluate_in_turn(i)

\* Time passes for the detector once its stream has been recorded.
DriftTick ==
    /\ Len(recorded) = TimedRecords
    /\ Tick

TimedDriftNext ==
    \/ record_timed_query
    \/ detect_timed_drift
    \/ should_trigger_retraining
    \/ DriftTick

TriggerNext ==
    \/ \E m \in MetricsInputs, d \in DriftInputs : evaluate_retraining_need(m, d)
    \/ \E reason \in Reasons, io_ok \in BOOLEAN, script_exists \in BOOLEAN,
          popen_ok \in BOOLEAN :
            trigger_retraining_pipeline(reason, io_ok, script_exists, popen_ok)
    \/ Tick

(***************************************************************************)
(* The monitoring cycle: the collector's snapshot and the detector's       *)
(* report handed to the trigger                                            *)
(***************************************************************************)
\* A price check answered in 1.201 s, otherwise like SearchA.
PriceSlow ==
    [query |-> 10, properties_count |-> 5, response_time |-> 1201,
     query_type |-> "price_check", neighborhood |-> "Back Bay"]

\* The stream of the cycle: SearchA records, then, after twice SwitchStride of
\* them, PriceSlow records, up to TimedRecords.
CycleKind == IF Len(recorded) < 2 * SwitchStride THEN SearchA ELSE PriceSlow

\* At most MaxCycleCalls API calls and MaxCycleEvals evaluations in a cycle.
MaxCycleCalls == 1

MaxCycleEvals == 1

record_cycle_query ==
    /\ Len(recorded) < TimedRecords
    /\ record_query([query |-> CycleKind.query,
                     properties_count |-> CycleKind.properties_count,
                     response_time |-> CycleKind.response_time,
                     query_type |-> CycleKind.query_type,
                     neighborhood |-> CycleKind.neighborhood,
                     timestamp |-> now])

record_cycle_call(success) ==
    /\ metrics.api_calls < MaxCycleCalls
    /\ record_api_call(success, 1000, 5, "search")

\* evaluate_retraining_need(get_metrics(), detect_drift()): the trigger is
\* handed the values the two calls returned.
evaluate_cycle ==
    /\ m_result.op = "get_metrics"
    /\ d_result.op = "detect_drift"
    /\ t_evals < MaxCycleEvals
    /\ EvaluateRetrainingNeed(m_result.value, d_result.value)

CycleNext ==
    \/ record_cycle_query
    \/ detect_drift
    \/ \E success \in BOOLEAN : record_cycle_call(success)
    \/ get_metrics
    \/ check_health
    \/ evaluate_cycle

(***************************************************************************)
(* NotificationManager                                                     *)
(***************************************************************************)
\* Cap of notification_history.
MaxNotificationHistory == 1000

\* At most MaxDispatch notifications are dispatched; the first MaxFreeAlerts
\* of them are any of the four alerts, the later ones go round the four in the
\* order of AlertOrder.
MaxDispatch == 1002

MaxFreeAlerts == 1

AlertOrder ==
    <<"drift_alert", "retraining_alert", "performance_alert", "deployment_success">>

\* Configurations read from the environment at construction.
NotificationConfigs ==
    {[email |-> FALSE, slack |-> FALSE, webhook |-> ""],
     [email |-> TRUE, slack |-> TRUE, webhook |-> "https://hooks.example/propbot"]}

\* Payloads of the four alerts.
DriftPayload == [drift_detected |-> TRUE, drift_score |-> 500, threshold |-> 300,
                 timestamp |-> 0]

RetrainingPayload ==
    [should_retrain |-> TRUE, reasons |-> << <<"High error rate", Frac(16, 100)>> >>,
     timestamp |-> 0]

PerformancePayload == SnapshotOf(100, 16, 1000)

DeploymentPayload == [version |-> "1.0", environment |-> "production"]

NotificationInit ==
    /\ notification_history = <<>>
    /\ \E c \in NotificationConfigs :
          /\ email_enabled = c.email
          /\ slack_enabled = c.slack
          /\ slack_webhook = c.webhook
    /\ emails = 0
    /\ slack_posts = 0
    /\ dispatched = <<>>
    /\ n_result = NoResult

\* The message formatters: the text is the tuple of its title and of the
\* values formatted into it.
_format_drift_message(drift_info) ==
    <<"Data Drift Detected!", Get(drift_info, "drift_score", 0),
      Get(drift_info, "threshold", 0), Get(drift_info, "timestamp", "N/A")>>

_format_retraining_message(retraining_info) ==
    <<"Model Retraining Triggered!",
      IF "reasons" \in DOMAIN retraining_info THEN retraining_info.reasons ELSE <<>>,
      Get(retraining_info, "timestamp", "N/A")>>

_format_performance_message(m) ==
    <<"Performance Issue Detected!", Get(m, "success_rate_percent", 0),
      Get(m, "avg_response_time_seconds", 0), Get(m, "failed_responses", 0),
      Get(m, "total_api_calls", 0)>>

\* notification_history after _dispatch_notification has recorded and trimmed.
RecordedNotification_Bug(history, notification) ==
    IF Len(Append(history, notification)) > MaxNotificationHistory
    THEN FirstN(Append(history, notification), MaxNotificationHistory)
    ELSE Append(history, notification)

RecordedNotification(history, notification) ==
    IF Len(Append(history, notification)) > MaxNotificationHistory
    THEN LastN(Append(history, notification), MaxNotificationHistory)
    ELSE Append(history, notification)

\* What requests.post does: answers 200, answers another status, or raises
\* (connection error, timeout).
PostOutcomes == {"ok", "rejected", "exception"}

\* _send_email only logs that an email would be sent.
_send_email(notification) == "logged"

\* _send_slack posts the message inside try/except: an answer other than 200
\* and an exception are both logged, nothing is raised.
_send_slack_Bug(notification, post) ==
    IF post = "ok" THEN "sent"
    ELSE IF post = "rejected" THEN "error logged" ELSE "raised"

_send_slack(notification, post) ==
    IF post = "ok" THEN "sent" ELSE "error logged"

\* _dispatch_notification: record, log by severity, then hand the notification
\* to each enabled transport, the email first.  An exception raised by a
\* transport would leave _dispatch_notification at that point.
_dispatch_notification(notification, post) ==
    /\ Len(dispatched) < MaxDispatch
    /\ \/ Len(dispatched) < MaxFreeAlerts
       \/ /\ dispatched # <<>>
          /\ \E i \in 1..4 :
                /\ AlertOrder[i] = dispatched[Len(dispatched)].type
                /\ AlertOrder[(i % 4) + 1] = notification.type
    /\ notification_history' = RecordedNotification(notification_history, notification)
    /\ emails' = IF email_enabled THEN emails + 1 ELSE emails
    /\ slack_posts' = IF slack_enabled /\ slack_webhook # "" THEN slack_posts + 1
                      ELSE slack_posts
    /\ dispatched' = Append(dispatched, notification)
    /\ LET email == IF email_enabled THEN _send_email(notification) ELSE "skipped"
           slack == IF email = "raised" THEN "not reached"
                    ELSE IF slack_enabled /\ slack_webhook # ""
                    THEN _send_slack(notification, post) ELSE "skipped"
       IN  n_result' = [op |-> "dispatch",
                        email |-> email,
                        slack |-> slack,
                        post |-> IF slack \in {"skipped", "not reached"} THEN "none" ELSE post,
                        raised |-> email = "raised" \/ slack = "raised"]
    /\ UNCHANGED <<email_enabled, slack_enabled, slack_webhook>>
    /\ UNCHANGED <<m_vars, c_vars, d_vars, t_vars, now>>

send_drift_alert(drift_info, post) ==
    _dispatch_notification(
        [type |-> "drift_alert", severity |-> "warning",
         message |-> _format_drift_message(drift_info),
         timestamp |-> now, data |-> drift_info], post)

send_retraining_alert(retraining_info, post) ==
    _dispatch_notification(
        [type |-> "retraining_alert", severity |-> "info",
         message |-> _format_retraining_message(retraining_info),
         timestamp |-> now, data |-> retraining_info], post)

send_performance_alert(m, post) ==
    _dispatch_notification(
        [type |-> "performance_alert", severity |-> "error",
         message |-> _format_performance_message(m),
         timestamp |-> now, data |-> m], post)

send_deployment_success(deployment_info, post) ==
    _dispatch_notification(
        [type |-> "deployment_success", severity |-> "info",
         message |-> <<"PropBot deployed successfully!",
                       Get(deployment_info, "version", "unknown"),
                       Get(deployment_info, "environment", "production"),
                       Get(deployment_info, "url", "N/A")>>,
         timestamp |-> now, data |-> deployment_info], post)

\* A long run of alerts, the webhook answering 200 to every post.
NotificationNext ==
    \/ send_drift_alert(DriftPayload, "ok")
    \/ send_retraining_alert(RetrainingPayload, "ok")
    \/ send_performance_alert(PerformancePayload, "ok")
    \/ send_deployment_success(DeploymentPayload, "ok")

\* A short run of alerts, at most MaxTransportDispatch, with every outcome of
\* the post.
MaxTransportDispatch == 12

TransportsNext ==
    /\ Len(dispatched) < MaxTransportDispatch
    /\ \E post \in PostOutcomes :
          \/ send_drift_alert(DriftPayload, post)
          \/ send_retraining_alert(RetrainingPayload, post)
          \/ send_performance_alert(PerformancePayload, post)
          \/ send_deployment_success(DeploymentPayload, post)

\* get_notification_stats: the counts by type and by severity the loop over
\* notification_history builds, and the length of the history.
NotificationStats_Bug(history) ==
    LET types == [i \in 1..Len(history) |-> Get(history[i], "type", "unknown")]
        severities == [i \in 1..Len(history) |-> Get(history[i], "severity", "unknown")]
    IN  [total_notifications |-> Len(history),
         by_type |-> Counter(types),
         by_severity |-> [k \in DOMAIN Counter(severities) |-> 1]]

NotificationStats(history) ==
    IF history = <<>>
    THEN [total_notifications |-> 0, by_type |-> <<>>, by_severity |-> <<>>]
    ELSE LET types == [i \in 1..Len(history) |-> Get(history[i], "type", "unknown")]
             severities == [i \in 1..Len(history) |->
                               Get(history[i], "severity", "unknown")]
         IN  [total_notifications |-> Len(history),
              by_type |-> Counter(types),
              by_severity |-> Counter(severities)]

get_notification_stats ==
    /\ n_result' = [op |-> "stats", value |-> NotificationStats(notification_history)]
    /\ UNCHANGED <<notification_history, email_enabled, slack_enabled, slack_webhook,
                   emails, slack_posts, dispatched>>
    /\ UNCHANGED <<m_vars, c_vars, d_vars, t_vars, now>>

\* A short run of alerts with the statistics read at any point of it.
StatsNext ==
    \/ TransportsNext
    \/ get_notification_stats

(***************************************************************************)
(* Specifications                                                          *)
(***************************************************************************)
Init ==
    /\ MetricsInit
    /\ DriftInit
    /\ TriggerInit
    /\ NotificationInit
    /\ now = 0

SpecMetrics == Init /\ [][MetricsNext]_vars

SpecDrift == Init /\ [][DriftNext]_vars

SpecTrigger == Init /\ [][TriggerNext]_vars

SpecNotify == Init /\ [][NotificationNext]_vars

SpecTransports == Init /\ [][TransportsNext]_vars

SpecCycle == Init /\ [][CycleNext]_vars

SpecStats == Init /\ [][StatsNext]_vars

SpecThreads == Init /\ [][ThreadsNext]_vars

SpecTimedDrift == Init /\ [][TimedDriftNext]_vars

SpecDecisions == Init /\ [][DecisionsNext]_vars

\* The detector constructed with any of ConfiguredWindowSizes.
ConfiguredInit ==
    /\ MetricsInit
    /\ DetectorInit(ConfiguredWindowSizes)
    /\ TriggerInit
    /\ NotificationInit
    /\ now = 0

SpecConfiguredDrift == ConfiguredInit /\ [][ConfiguredDriftNext]_vars

(***************************************************************************)
(* Claims about the MetricsCollector                                       *)
(***************************************************************************)
\* C1 as stated: after N successes and M failures get_metrics reports
\* success_rate_percent exactly equal to 100*N/(N+M), and 0 when N+M = 0.
C1_ExactSuccessRate ==
    m_result.op = "get_metrics" =>
        IF n_success + n_failure = 0
        THEN m_result.value.success_rate_percent = 0
        ELSE m_result.value.success_rate_percent * (n_success + n_failure)
                = 10000 * n_success

\* C1 amended: after N successes and M failures get_metrics reports
\* success_rate_percent equal to 100*N/(N+M) rounded to two decimals (within
\* 0.005 of it, and on the 0.01 grid), and exactly 0 when N+M = 0.
C1_RoundedSuccessRate ==
    m_result.op = "get_metrics" =>
        IF n_success + n_failure = 0
        THEN m_result.value.success_rate_percent = 0
        ELSE 2 * Abs(m_result.value.success_rate_percent * (n_success + n_failure)
                     - 10000 * n_success) <= n_success + n_failure

\* get_metrics after 1 success and 2 failures: 33.33, not 100/3.
C1_Witness ==
    /\ m_result.op = "get_metrics"
    /\ n_success = 1
    /\ n_failure = 2
    /\ m_result.value.success_rate_percent = 3333

\* C2: check_health returns healthy = false iff success_rate_percent < 95 or
\* avg_response_time_seconds > 3.0 or (total calls > 0 and successes = 0); the
\* issues list holds exactly one entry per condition that holds, so healthy is
\* true exactly when issues is empty.
C2_HealthIffNoIssue ==
    m_result.op = "check_health" =>
        LET r == m_result.value
            s == r.metrics
            low == s.success_rate_percent < 9500
            slow == s.avg_response_time_seconds > 3000
            dead == s.total_api_calls > 0 /\ s.successful_responses = 0
            count(c) == IF c THEN 1 ELSE 0
            has(tag) == \E i \in 1..Len(r.issues) : r.issues[i][1] = tag
        IN  /\ s.total_api_calls = n_success + n_failure
            /\ s.successful_responses = n_success
            /\ (r.healthy = FALSE) <=> (low \/ slow \/ dead)
            /\ Len(r.issues) = count(low) + count(slow) + count(dead)
            /\ has("Low success rate") <=> low
            /\ has("High response time") <=> slow
            /\ has("No successful responses") <=> dead
            /\ r.healthy <=> (r.issues = <<>>)

\* check_health with all three conditions holding at once, and a healthy
\* collector with 19 successes in 20 calls (exactly 95 %).
C2_Witness ==
    /\ m_result.op = "check_health"
    /\ Len(m_result.value.issues) = 3

C2_WitnessHealthy ==
    /\ m_result.op = "check_health"
    /\ m_result.value.metrics.success_rate_percent = 9500
    /\ m_result.value.healthy

(***************************************************************************)
(* Claims about the DriftDetector                                          *)
(***************************************************************************)
\* What detect_drift would return in the current state.
DetectNow ==
    IF ~HasEnoughData(recent_queries) THEN InsufficientData(recent_queries)
    ELSE DriftReport(recent_queries,
                     IF baseline_stats = None
                     THEN _calculate_statistics(FirstN(recent_queries, MinSamples))
                     ELSE baseline_stats)

IsInsufficient(r) ==
    /\ r.drift_detected = FALSE
    /\ "drift_score" \notin DOMAIN r
    /\ r.reason = "Insufficient data for drift detection"

IsDefinite(r) ==
    {"drift_detected", "drift_score", "threshold", "baseline_stats", "current_stats"}
        \subseteq DOMAIN r

\* C3: detect_drift returns the soft insufficient-data result (drift_detected
\* false, no drift_score) whenever fewer than 50 records have been recorded,
\* and a definite report (drift_score, threshold, baseline_stats,
\* current_stats) when exactly 50 have been recorded.  Stated of the value a
\* call returned and of the value a call would return in every state.
C3_InsufficientBelow50 ==
    /\ Len(recorded) < 50 => IsInsufficient(DetectNow)
    /\ Len(recorded) = 50 => IsDefinite(DetectNow) /\ ~IsInsufficient(DetectNow)
    /\ d_result.op = "detect_drift" =>
          /\ Len(recorded) < 50 => IsInsufficient(d_result.value)
          /\ Len(recorded) = 50 =>
                /\ IsDefinite(d_result.value)
                /\ d_result.value.baseline_stats # None
                /\ d_result.value.current_stats.total_queries = 50

\* detect_drift called right after the 50th record returned a definite report.
C3_Witness ==
    /\ d_result.op = "detect_drift"
    /\ Len(recorded) = 50
    /\ IsDefinite(d_result.value)

\* detect_drift called after 40 records returned the insufficient-data result.
C3_WitnessWarmingUp ==
    /\ d_result.op = "detect_drift"
    /\ Len(recorded) = 40
    /\ IsInsufficient(d_result.value)

\* C4: the baseline is set exactly once, at the 50th record, and no later
\* record_query or detect_drift changes it: whenever it is set it is the
\* statistics of the first 50 records ever recorded, also after the window
\* has evicted all of them; before the 50th record it is unset.
C4_BaselineFrozen ==
    /\ Len(recorded) < 50 => baseline_stats = None
    /\ (Len(recorded) >= 50 /\ window_size >= 50) => baseline_stats # None
    /\ baseline_stats # None =>
          /\ Len(recorded) >= 50
          /\ baseline_stats = _calculate_statistics(FirstN(recorded, 50))

\* 150 records recorded, so none of the first 50 is in the window any more, the
\* window's own statistics differ from the baseline, and detect_drift has run.
C4_Witness ==
    /\ Len(recorded) >= 150
    /\ baseline_stats # None
    /\ _calculate_statistics(FirstN(recent_queries, 50)) # baseline_stats
    /\ d_result.op = "detect_drift"

\* The baseline and current samples of the current state.
SameMeans(b, c) ==
    /\ b.avg_query_length = c.avg_query_length
    /\ b.avg_properties_returned = c.avg_properties_returned
    /\ b.avg_response_time = c.avg_response_time

\* The two histograms are the same after normalisation.
SameTypeShares(b, c) ==
    /\ DOMAIN b.query_type_distribution = DOMAIN c.query_type_distribution
    /\ \A k \in DOMAIN b.query_type_distribution :
          b.query_type_distribution[k] * c.total_queries
            = c.query_type_distribution[k] * b.total_queries

\* C5 as stated: for a baseline sample and a current sample whose per-feature
\* means (query length, result count, latency) are identical, the drift score
\* is 0.
C5_SameMeansScoreZero ==
    (baseline_stats # None /\ Len(recent_queries) >= 50) =>
        LET c == _calculate_statistics(LastN(recent_queries, 50))
        IN  SameMeans(baseline_stats, c) =>
                _calculate_drift_score(baseline_stats, c) = FZero

\* C5 amended: for a baseline sample and a current sample whose per-feature
\* means are identical AND whose query-type histograms have the same shares,
\* the drift score is 0; with identical means alone the score is 0 exactly
\* when the type shares are the same too.
C5_SameMeansAndTypesScoreZero ==
    (baseline_stats # None /\ Len(recent_queries) >= 50) =>
        LET c == _calculate_statistics(LastN(recent_queries, 50))
            score == _calculate_drift_score(baseline_stats, c)
        IN  SameMeans(baseline_stats, c) =>
                (score = FZero <=> SameTypeShares(baseline_stats, c))

\* detect_drift scored a current sample against a baseline with the same means
\* and the same type shares: score 0.
C5_Witness ==
    /\ d_result.op = "detect_drift"
    /\ IsDefinite(d_result.value)
    /\ SameMeans(d_result.value.baseline_stats, d_result.value.current_stats)
    /\ SameTypeShares(d_result.value.baseline_stats, d_result.value.current_stats)
    /\ d_result.value.drift_score = 0

\* Identical means, different types: the case the statement forgets.
C5_WitnessTypesDiffer ==
    /\ d_result.op = "detect_drift"
    /\ IsDefinite(d_result.value)
    /\ SameMeans(d_result.value.baseline_stats, d_result.value.current_stats)
    /\ d_result.value.drift_score = 250

\* The scenario of C6: 60 records of type search, then 50 of type price_check,
\* window 100, and detect_drift has just returned.
C6_Scenario ==
    /\ window_size = 100
    /\ Len(recorded) = 110
    /\ \A i \in 1..60 : recorded[i].query_type = "search"
    /\ \A i \in 61..110 : recorded[i].query_type = "price_check"
    /\ d_result.op = "detect_drift"

\* C6 as stated: in the scenario detect_drift reports drift_detected = true
\* whatever the other fields of the records are.
C6_TypeShiftAlwaysDetected ==
    C6_Scenario => d_result.value.drift_detected = TRUE

\* Sum of a field over recorded[from..to].
FieldSum(field, from, to) ==
    SeqSum([i \in 1..(to - from + 1) |-> recorded[from + i - 1][field]])

\* The numerical feature is computable (its baseline mean is positive).
C6_Computable(field) == FieldSum(field, 1, 50) > 0

\* Its relative change between the first 50 and the last 50 records, capped at 1.
C6_Change(field) ==
    IF C6_Computable(field)
    THEN FMin(Frac(Abs(FieldSum(field, 61, 110) - FieldSum(field, 1, 50)),
                   FieldSum(field, 1, 50)), FOne)
    ELSE FZero

\* C6 amended: in the scenario the type-histogram component is 1.0 and the
\* score is the mean of it and of the computable numerical components, so
\* drift_score >= 0.25 and drift_detected = true exactly when
\* (1 + sum of the relative changes) / (1 + number of computable features)
\* exceeds 0.3; with the other fields unchanged and positive the score is 0.25
\* and drift_detected = false.
C6_TypeShiftDetectedIffMeanExceeds ==
    C6_Scenario =>
        LET r == d_result.value
            fields == <<"query", "properties_count", "response_time">>
            k == Cardinality({i \in 1..3 : C6_Computable(fields[i])})
            total == FAdd(FOne, FSeqSum([i \in 1..3 |-> C6_Change(fields[i])]))
            mean == FDiv(total, Frac(k + 1, 1))
        IN  /\ _distribution_difference(r.baseline_stats.query_type_distribution,
                                        r.current_stats.query_type_distribution) = FOne
            /\ r.drift_score = RoundHalfEven(1000 * mean.n, mean.d)
            /\ r.drift_score >= 250
            /\ r.drift_detected <=> FLess(Frac(3, 10), mean)
            /\ (k = 3 /\ total = FOne) => (r.drift_score = 250 /\ ~r.drift_detected)
            /\ r.drift_detected => Len(drift_history) > 0 

\* The scenario with a drift found (the query length doubles)...
C6_Witness ==
    /\ C6_Scenario
    /\ d_result.value.drift_detected
    /\ d_result.value.drift_score = 500

\* ... and with the other fields unchanged: score 0.25, no drift reported.
C6_WitnessNoDrift ==
    /\ C6_Scenario
    /\ ~d_result.value.drift_detected
    /\ d_result.value.drift_score = 250

(***************************************************************************)
(* Claims about the RetrainingTrigger                                      *)
(***************************************************************************)
\* evaluate_retraining_need has just returned t_result.value.
Evaluated == t_result.op = "evaluate"

\* The call was made inside the cool-down: last_retraining is set and fewer
\* than 24 hours had passed.
InCoolDown == last_retraining # None /\ now - last_retraining.hours < 24

TooSoonReasons == << <<"Too soon since last retraining">> >>

HasReason(r, tag) == \E i \in 1..Len(r.reasons) : r.reasons[i][1] = tag

\* C7: whenever last_retraining is set and fewer than 24 hours have elapsed,
\* every evaluate_retraining_need returns should_retrain = false with the
\* single too-soon reason, whatever the metrics and the drift report are; once
\* the interval has fully elapsed (24 hours or more) the checks are evaluated
\* again.
C7_CoolDownDominates ==
    Evaluated =>
        /\ InCoolDown =>
              /\ t_result.value.should_retrain = FALSE
              /\ t_result.value.reasons = TooSoonReasons
        /\ ~InCoolDown =>
              /\ "metrics_evaluated" \in DOMAIN t_result.value
              /\ ~HasReason(t_result.value, "Too soon since last retraining")

\* Inside the cool-down, a snapshot at 80 % success with a detected drift of
\* 0.5 is answered "too soon".
C7_Witness ==
    /\ Evaluated
    /\ InCoolDown
    /\ t_input.metrics.success_rate_percent = 8000
    /\ t_input.drift_info.drift_detected
    /\ t_result.value.reasons = TooSoonReasons

\* Exactly 24 hours after a retraining the checks run again.
C7_WitnessElapsed ==
    /\ Evaluated
    /\ last_retraining # None
    /\ now - last_retraining.hours = 24
    /\ t_result.value.should_retrain

\* The four checks, read off the inputs of the call.
Check1 == t_input.metrics.success_rate_percent < 8500

Check2 ==
    /\ t_input.drift_info.drift_detected
    /\ "drift_score" \in DOMAIN t_input.drift_info
    /\ t_input.drift_info.drift_score > 300

Check3 ==
    /\ t_input.metrics.total_api_calls >= 100
    /\ 100 * t_input.metrics.failed_responses > 15 * t_input.metrics.total_api_calls

Check4 == t_input.metrics.avg_response_time_seconds > 5000

\* C8: outside the cool-down evaluate_retraining_need returns should_retrain =
\* true iff at least one of the four checks holds; when none holds it returns
\* should_retrain = false with an empty reasons list.
C8_RetrainIffSomeCheck ==
    (Evaluated /\ ~InCoolDown) =>
        /\ t_result.value.should_retrain <=> (Check1 \/ Check2 \/ Check3 \/ Check4)
        /\ ~(Check1 \/ Check2 \/ Check3 \/ Check4) =>
              /\ t_result.value.should_retrain = FALSE
              /\ t_result.value.reasons = <<>>

\* Success 100 %, no failures, 1.0 s latency, no drift: no retraining, no reasons.
C8_Witness ==
    /\ Evaluated
    /\ ~InCoolDown
    /\ t_input.metrics.success_rate_percent = 10000
    /\ t_input.metrics.failed_responses = 0
    /\ t_input.metrics.avg_response_time_seconds = 1000
    /\ ~t_input.drift_info.drift_detected
    /\ t_result.value.should_retrain = FALSE
    /\ t_result.value.reasons = <<>>

\* Only the error-rate check holds (15001 failures in 100000 calls: the success
\* rate rounds to 85.00 %).
C8_WitnessErrorRateOnly ==
    /\ Evaluated
    /\ ~InCoolDown
    /\ Check3 /\ ~Check1 /\ ~Check2 /\ ~Check4
    /\ t_result.value.should_retrain

\* C9: outside the cool-down, for every snapshot whose success_rate_percent/100
\* is below 0.85, evaluate_retraining_need returns should_retrain = true and
\* its reasons include the performance-threshold reason, whatever the drift
\* report and the other metrics are.
C9_LowSuccessRateRetrains ==
    (Evaluated /\ ~InCoolDown /\ t_input.metrics.success_rate_percent < 8500) =>
        /\ t_result.value.should_retrain = TRUE
        /\ HasReason(t_result.value, "Performance below threshold")
        /\ t_result.value.reasons[1] = <<"Performance below threshold",
                                         t_input.metrics.success_rate_percent>>

\* Success rate 80 % with an insufficient-data drift report.
C9_Witness ==
    /\ Evaluated
    /\ ~InCoolDown
    /\ t_input.metrics.success_rate_percent = 8000
    /\ "drift_score" \notin DOMAIN t_input.drift_info
    /\ t_result.value.should_retrain
    /\ Len(t_result.value.reasons) = 1

(***************************************************************************)
(* Claims about the NotificationManager                                    *)
(***************************************************************************)
\* C10: after any number of dispatched notifications notification_history
\* never holds more than 1000 entries, and it always equals the most recent
\* min(n, 1000) dispatched notifications in dispatch order (the oldest are
\* evicted first).
C10_HistoryIsLast1000 ==
    LET n == Len(dispatched)
        k == IF n < 1000 THEN n ELSE 1000
    IN  /\ Len(notification_history) <= 1000
        /\ Len(notification_history) = k
        /\ \A i \in 1..k : notification_history[i] = dispatched[n - k + i]

\* More than 1000 notifications were dispatched: the first ones are gone, the
\* history starts with the second one dispatched, which differs from the first.
C10_Witness ==
    /\ Len(dispatched) = 1001
    /\ Len(notification_history) = 1000
    /\ notification_history[1] = dispatched[2]
    /\ dispatched[1] # dispatched[2]
    /\ notification_history[1000] = dispatched[1001]

(***************************************************************************)
(* Claims about the retraining interval and concurrent recording           *)
(***************************************************************************)
\* C11: in any sequence of evaluate_retraining_need and
\* trigger_retraining_pipeline calls, two retraining-pipeline invocations
\* (launches of the retraining script, job descriptors recorded in the ledger)
\* are never less than min_retraining_interval_hours (24 h) apart.
C11_InvocationsApart ==
    /\ \A i, j \in DOMAIN launches :
          i < j => launches[j] - launches[i] >= min_retraining_interval_hours
    /\ jobs_file # None =>
          \A i, j \in DOMAIN jobs_file.jobs :
              i < j => jobs_file.jobs[j].triggered_at - jobs_file.jobs[i].triggered_at
                          >= min_retraining_interval_hours

\* C12: for every interleaving of concurrent record_api_call calls, once all
\* K calls have completed, total calls equals K, successes plus failures
\* equals K, and the per-type histogram counts sum to K.
C12_NoLostUpdate ==
    (\A t \in Threads : c_pc[t] = "done") =>
        /\ metrics.api_calls = NumThreads
        /\ metrics.successful_responses + metrics.failed_responses = NumThreads
        /\ DictSum(metrics.query_types) = NumThreads

\* C13: when the retraining script cannot be located or cannot be launched,
\* trigger_retraining_pipeline returns false and does not raise; it returns
\* true only when the script was actually started.
C13_FailureReported ==
    t_result.op = "trigger" =>
        /\ t_result.value \in BOOLEAN
        /\ t_result.value = TRUE <=> t_runner = "launched"

(***************************************************************************)
(* Claims about the drift history, the window and the score                *)
(***************************************************************************)
\* The drift reports of the history that were at most / less than h hours old
\* at time t.
ReportsNoOlderThan(h, t) ==
    Cardinality({i \in DOMAIN drift_history :
                    /\ drift_history[i].drift_detected
                    /\ t - drift_history[i].timestamp.iso <= h})

ReportsYoungerThan(h, t) ==
    Cardinality({i \in DOMAIN drift_history :
                    /\ drift_history[i].drift_detected
                    /\ t - drift_history[i].timestamp.iso < h})

\* C14: should_trigger_retraining() returns true if and only if the drift
\* history holds at least 3 drift reports (drift_detected = true) whose
\* timestamp lies within the trailing 24 hours; reports older than 24 hours
\* never count.  (True when 3 reports are less than 24 h old, false when fewer
\* than 3 are at most 24 h old.)
C14_ThreeRecentDrifts ==
    d_result.op = "should_trigger_retraining" =>
        /\ ReportsYoungerThan(24, d_result.at) >= 3 => d_result.value = TRUE
        /\ ReportsNoOlderThan(24, d_result.at) < 3 => d_result.value = FALSE

\* should_trigger_retraining returned true on a history of four reports, of
\* which one is older than 24 hours and three are younger.
C14_Witness ==
    /\ d_result.op = "should_trigger_retraining"
    /\ d_result.at = now
    /\ Len(drift_history) = 4
    /\ ReportsYoungerThan(24, now) = 3
    /\ ReportsNoOlderThan(24, now) = 3
    /\ d_result.value = TRUE

\* It returned false on a history of three reports, all older than 24 hours.
C14_WitnessOld ==
    /\ d_result.op = "should_trigger_retraining"
    /\ d_result.at = now
    /\ Len(drift_history) = 3
    /\ ReportsNoOlderThan(24, now) = 0
    /\ d_result.value = FALSE

\* C15: after any sequence of evaluate_retraining_need calls,
\* retraining_history holds at most 100 entries and equals the most recent
\* min(k, 100) decisions whose should_retrain was true, in order; a decision is
\* appended exactly when should_retrain is true and never when it is false.
C15_HistoryIsLast100Decisions ==
    LET k == Len(t_decisions)
        n == IF k < 100 THEN k ELSE 100
    IN  /\ Len(retraining_history) <= 100
        /\ Len(retraining_history) = n
        /\ \A i \in 1..n : /\ retraining_history[i] = t_decisions[k - n + i]
                           /\ retraining_history[i].should_retrain = TRUE

\* 101 decisions called for retraining (and others did not): the first one is
\* gone, the history starts with the second, which differs from the first.
C15_Witness ==
    /\ Len(t_decisions) = 101
    /\ t_evals > 101
    /\ Len(retraining_history) = 100
    /\ retraining_history[1] = t_decisions[2]
    /\ t_decisions[1] # t_decisions[2]
    /\ retraining_history[100] = t_decisions[101]

\* C16: after any sequence of record_query calls the window holds at most
\* window_size records and equals the most recent min(n, window_size) recorded
\* feature records in arrival order.
C16_WindowIsLastRecords ==
    LET n == Len(recorded)
        k == IF n < window_size THEN n ELSE window_size
    IN  /\ Len(recent_queries) <= window_size
        /\ Len(recent_queries) = k
        /\ \A i \in 1..k : recent_queries[i] = recorded[n - k + i]

\* 130 records went into a window of 100, the stream having changed after the
\* 30th: the window starts with the 31st record, which differs from the 30th.
C16_Witness ==
    /\ window_size = 100
    /\ Len(recorded) = 130
    /\ Len(recent_queries) = 100
    /\ recent_queries[1] = recorded[31]
    /\ recorded[30] # recorded[31]

\* x lies in [0, 1].
InUnitInterval(x) == ~FLess(x, FZero) /\ ~FLess(FOne, x)

\* C17: every definite report returned by detect_drift has a drift_score in
\* [0, 1]: each numerical component is capped at 1.0, the type-histogram
\* distance lies in [0, 1], and the score is their unweighted mean (rounded to
\* three decimals), for any recorded values including zero and negative ones.
C17_ScoreInUnitInterval ==
    (d_result.op = "detect_drift" /\ IsDefinite(d_result.value)) =>
        LET r == d_result.value
            scores == DriftScores(r.baseline_stats, r.current_stats)
            score == _calculate_drift_score(r.baseline_stats, r.current_stats)
        IN  /\ r.drift_score >= 0
            /\ r.drift_score <= 1000
            /\ \A i \in DOMAIN scores : InUnitInterval(scores[i])
            /\ InUnitInterval(score)
            /\ scores # <<>> =>
                  score.n * FSeqSum(scores).d * Len(scores) = FSeqSum(scores).n * score.d
            /\ 2 * Abs(r.drift_score * score.d - 1000 * score.n) <= score.d

\* A definite report whose baseline latency is positive and whose current
\* latency is negative: the relative change is 1.2, the component is 1.0.
C17_Witness ==
    /\ d_result.op = "detect_drift"
    /\ IsDefinite(d_result.value)
    /\ d_result.value.baseline_stats.avg_response_time.n > 0
    /\ d_result.value.current_stats.avg_response_time.n < 0
    /\ d_result.value.drift_score > 0

\* A definite report against a baseline of negative means: no numerical
\* component is computable.
C17_WitnessNegativeBaseline ==
    /\ d_result.op = "detect_drift"
    /\ IsDefinite(d_result.value)
    /\ d_result.value.baseline_stats.avg_response_time.n < 0
    /\ Len(DriftScores(d_result.value.baseline_stats,
                        d_result.value.current_stats)) = 2

\* C19: a detect_drift() call leaves the record window and the frozen baseline
\* unchanged; its only state change is to drift_history, which grows by
\* exactly one report when the call returns drift_detected = true (drift_score
\* > threshold) and is unchanged otherwise, including on the insufficient-data
\* result.
C19_DetectOnlyAppendsDrift ==
    d_result.op = "detect_drift" =>
        LET r == d_result.value
        IN  /\ recent_queries = d_before.recent_queries
            /\ baseline_stats = d_before.baseline_stats
            /\ window_size \in ConfiguredWindowSizes
            /\ drift_history = IF r.drift_detected
                                THEN Append(d_before.drift_history, r)
                                ELSE d_before.drift_history
            /\ IsInsufficient(r) => ~r.drift_detected
            /\ IsDefinite(r) =>
                  (r.drift_detected <=>
                      FLess(drift_threshold,
                            _calculate_drift_score(r.baseline_stats, r.current_stats)))

\* detect_drift returned drift_detected = true and the history grew by one.
C19_Witness ==
    /\ d_result.op = "detect_drift"
    /\ d_result.value.drift_detected
    /\ d_before.drift_history = <<>>
    /\ drift_history = <<d_result.value>>

\* detect_drift returned a definite report without drift, and an
\* insufficient-data result: the history stayed empty.
C19_WitnessNoDrift ==
    /\ d_result.op = "detect_drift"
    /\ IsDefinite(d_result.value)
    /\ ~d_result.value.drift_detected
    /\ d_result.value.drift_score > 0
    /\ drift_history = <<>>

\* C20: for every configured window capacity the detector moves from
\* warming-up to active exactly once, when the 50th record is recorded (the
\* baseline being computed from exactly the first 50 records), and never
\* returns to warming-up: after 50 or more records detect_drift() never
\* returns the insufficient-data result.
C20_ActiveFromFiftiethRecord ==
    /\ baseline_stats # None <=> Len(recorded) >= 50
    /\ baseline_stats # None =>
          baseline_stats = _calculate_statistics(FirstN(recorded, 50))
    /\ (d_result.op = "detect_drift" /\ Len(recorded) >= 50) =>
          ~IsInsufficient(d_result.value)

(***************************************************************************)
(* Claims about the notification transports                                *)
(***************************************************************************)
\* C18: in _dispatch_notification a failure of one external transport (email
\* or chat webhook) never propagates to the caller, never prevents the
\* notification from being recorded in history, and never prevents the other
\* enabled transport from being attempted.
C18_TransportFailureContained ==
    n_result.op = "dispatch" =>
        /\ ~n_result.raised
        /\ notification_history # <<>>
        /\ notification_history[Len(notification_history)] = dispatched[Len(dispatched)]
        /\ email_enabled => n_result.email = "logged"
        /\ (slack_enabled /\ slack_webhook # "") =>
              n_result.slack \in {"sent", "error logged"}

\* The post to the webhook raised: the error was logged, the notification is
\* in the history and the email transport was used.
C18_Witness ==
    /\ n_result.op = "dispatch"
    /\ n_result.post = "exception"
    /\ n_result.slack = "error logged"
    /\ n_result.email = "logged"
    /\ ~n_result.raised
    /\ notification_history[Len(notification_history)] = dispatched[Len(dispatched)]

(***************************************************************************)
(* Claims about the reasons list, the frame of the trigger's calls and the *)
(* job ledger                                                              *)
(***************************************************************************)
\* The tags of the reasons of the last evaluation, in their order.
ReasonTags == [i \in 1..Len(t_result.value.reasons) |-> t_result.value.reasons[i][1]]

\* One tag per check that holds for the evaluated inputs, in the order
\* performance, drift, error rate, response time.
ExpectedTags ==
    (IF Check1 THEN <<"Performance below threshold">> ELSE <<>>)
    \o (IF Check2 THEN <<"Significant data drift detected">> ELSE <<>>)
    \o (IF Check3 THEN <<"High error rate">> ELSE <<>>)
    \o (IF Check4 THEN <<"Response time degraded">> ELSE <<>>)

ChecksHolding ==
    Cardinality({i \in 1..4 : \/ i = 1 /\ Check1
                              \/ i = 2 /\ Check2
                              \/ i = 3 /\ Check3
                              \/ i = 4 /\ Check4})

\* C21: outside the cool-down evaluate_retraining_need evaluates all four
\* checks regardless of earlier results; its reasons list holds exactly one
\* entry per check that holds, in the fixed order performance, drift, error
\* rate, response time, and the number of reasons is the number of checks
\* that hold.
C21_OneReasonPerCheck ==
    (Evaluated /\ ~InCoolDown) =>
        /\ ReasonTags = ExpectedTags
        /\ Len(t_result.value.reasons) = ChecksHolding

\* All four checks hold at once and all four reasons are listed.
C21_Witness ==
    /\ Evaluated /\ ~InCoolDown
    /\ Check1 /\ Check2 /\ Check3 /\ Check4
    /\ ReasonTags = <<"Performance below threshold", "Significant data drift detected",
                      "High error rate", "Response time degraded">>

\* C22: an evaluate_retraining_need call short-circuited by the cool-down
\* changes no trigger state: retraining_history and last_retraining are after
\* the call what they were before it, whatever metrics and drift report were
\* passed.
C22_CoolDownChangesNothing ==
    (Evaluated /\ InCoolDown) =>
        /\ retraining_history = t_before.retraining_history
        /\ last_retraining = t_before.last_retraining

\* A short-circuited call on inputs for which two checks hold, made by a
\* trigger that has one decision in its history.
C22_Witness ==
    /\ Evaluated /\ InCoolDown
    /\ Check1 /\ Check2
    /\ Len(t_before.retraining_history) = 1
    /\ retraining_history = t_before.retraining_history

\* The last call was trigger_retraining_pipeline and it returned r.
Triggered(r) == t_result.op = "trigger" /\ t_result.value = r

\* C23: whenever trigger_retraining_pipeline returns false, last_retraining
\* and retraining_history are what they were before the call (a failed launch
\* does not start the cool-down); whenever it returns true, last_retraining
\* is the time of the call.
C23_FailedTriggerKeepsState ==
    /\ Triggered(FALSE) =>
          /\ last_retraining = t_before.last_retraining
          /\ retraining_history = t_before.retraining_history
    /\ Triggered(TRUE) => last_retraining = DateTime(now)

\* A launch that failed a day after a successful one: last_retraining is
\* still the earlier time and the recorded decision is still there.
C23_Witness ==
    /\ Triggered(FALSE)
    /\ t_runner = "failed"
    /\ last_retraining # None
    /\ last_retraining.hours < now
    /\ Len(retraining_history) = 1

\* The job descriptors of a ledger file.
LedgerJobs(file) == IF file = None THEN <<>> ELSE file.jobs

\* C24: the job ledger is append-only: every trigger_retraining_pipeline call
\* that returns true adds exactly one job descriptor (status 'initiated', the
\* five fixed steps) at the end of the ledger and leaves all earlier
\* descriptors present and unchanged, including when the ledger cannot be
\* read or written.
C24_LedgerAppendOnly ==
    Triggered(TRUE) =>
        LET jobs  == LedgerJobs(jobs_file)
            prior == LedgerJobs(t_before.jobs_file)
        IN  /\ Len(jobs) = Len(prior) + 1
            /\ SubSeq(jobs, 1, Len(prior)) = prior
            /\ jobs[Len(jobs)].status = "initiated"
            /\ jobs[Len(jobs)].steps = <<"data_collection", "preprocessing", "training",
                                         "validation", "deployment">>

\* C29: evaluate_retraining_need never modifies last_retraining and only a
\* trigger_retraining_pipeline call that returns true sets it; so a positive
\* decision does not start the cool-down: a second evaluate_retraining_need
\* on the same inputs with no trigger_retraining_pipeline in between returns
\* should_retrain = true again and appends a second entry to
\* retraining_history.
C29_DecisionStartsNoCoolDown ==
    /\ Evaluated => last_retraining = t_before.last_retraining
    /\ (t_result.op = "trigger" /\ last_retraining # t_before.last_retraining) =>
          t_result.value = TRUE
    /\ (Evaluated /\ t_evals = 2 /\ t_triggers = 0 /\ Len(t_before.retraining_history) = 1) =>
          /\ t_result.value.should_retrain
          /\ retraining_history = Append(t_before.retraining_history, t_result.value)

\* Two evaluations of the same inputs twelve hours apart, no trigger call:
\* both decisions are in the history.
C29_Witness ==
    /\ Evaluated /\ t_evals = 2 /\ t_triggers = 0
    /\ last_retraining = None
    /\ Len(retraining_history) = 2
    /\ retraining_history[1].should_retrain /\ retraining_history[2].should_retrain
    /\ retraining_history[1].timestamp # retraining_history[2].timestamp

\* C30: job descriptors in the ledger are uniquely identified: any two
\* distinct trigger_retraining_pipeline calls record different job_id values,
\* including two calls made within the same clock second.
C30_JobIdsUnique ==
    \A i, j \in 1..LedgerSize(jobs_file) :
        i # j => jobs_file.jobs[i].job_id # jobs_file.jobs[j].job_id

(***************************************************************************)
(* Claims about the collector's aggregate                                  *)
(***************************************************************************)
\* C26: after any sequential sequence of record_api_call calls the aggregate
\* is consistent: api_calls = successful_responses + failed_responses =
\* chromadb_queries = number of stored latencies = number of stored result
\* counts = sum of the per-type histogram counts.
C26_AggregateConsistent ==
    /\ metrics.api_calls = n_success + n_failure
    /\ metrics.api_calls = metrics.successful_responses + metrics.failed_responses
    /\ metrics.api_calls = metrics.chromadb_queries
    /\ metrics.api_calls = Len(metrics.avg_response_time)
    /\ metrics.api_calls = Len(metrics.properties_returned)
    /\ metrics.api_calls = DictSum(metrics.query_types)

\* Three calls, successes and a failure among them, of two query types.
C26_Witness ==
    /\ metrics.api_calls = 3
    /\ metrics.successful_responses = 2
    /\ metrics.failed_responses = 1
    /\ Cardinality(DOMAIN metrics.query_types) = 2
    /\ DictSum(metrics.query_types) = 3

(***************************************************************************)
(* Claims about the notification statistics                                *)
(***************************************************************************)
\* C25: in every state of the NotificationManager get_notification_stats()
\* counts over the full retained history: total_notifications is the length
\* of notification_history, and the by_type counts and the by_severity counts
\* each sum to total_notifications (all zero/empty when the history is
\* empty).
C25_StatsCoverHistory ==
    n_result.op = "stats" =>
        LET stats == n_result.value
        IN  /\ stats.total_notifications = Len(notification_history)
            /\ DictSum(stats.by_type) = stats.total_notifications
            /\ DictSum(stats.by_severity) = stats.total_notifications
            /\ notification_history = <<>> =>
                  /\ stats.total_notifications = 0
                  /\ DOMAIN stats.by_type = {}
                  /\ DOMAIN stats.by_severity = {}

\* The statistics of six notifications of all four types, two types counted
\* twice.
C25_Witness ==
    /\ n_result.op = "stats"
    /\ n_result.value.total_notifications = 6
    /\ Cardinality(DOMAIN n_result.value.by_type) = 4
    /\ \E k \in DOMAIN n_result.value.by_type : n_result.value.by_type[k] = 2
    /\ \E k \in DOMAIN n_result.value.by_severity : n_result.value.by_severity[k] >= 2

(***************************************************************************)
(* Claims about the monitoring cycle                                       *)
(***************************************************************************)
\* C27: the drift decision of the detector and the drift check of the
\* trigger agree: with both thresholds at 0.3, whenever detect_drift()
\* returns a report with drift_detected = true, evaluate_retraining_need
\* called outside the cool-down with that report returns should_retrain =
\* true with the data-drift reason.
C27_DetectorAndTriggerAgree ==
    (Evaluated /\ ~InCoolDown /\ t_input.drift_info.drift_detected) =>
        /\ t_result.value.should_retrain
        /\ HasReason(t_result.value, "Significant data drift detected")

\* C28: for a MetricsCollector on which no call has been recorded,
\* get_metrics() reports success_rate_percent 0, check_health() reports
\* healthy = false with the single low-success-rate issue, and
\* evaluate_retraining_need called outside the cool-down with that snapshot
\* and a no-drift report returns should_retrain = true with exactly the
\* performance-threshold reason.
C28_EmptyCollectorRetrains ==
    /\ (metrics.api_calls = 0 /\ m_result.op = "get_metrics") =>
          m_result.value.success_rate_percent = 0
    /\ (metrics.api_calls = 0 /\ m_result.op = "check_health") =>
          /\ ~m_result.value.healthy
          /\ m_result.value.issues = << <<"Low success rate", 0>> >>
    /\ (/\ Evaluated /\ ~InCoolDown
        /\ metrics.api_calls = 0
        /\ ~t_input.drift_info.drift_detected) =>
          /\ t_input.metrics = MetricsSnapshot(metrics)
          /\ t_result.value.should_retrain
          /\ ReasonTags = <<"Performance below threshold">>

\* The empty collector's snapshot evaluated with a definite no-drift report
\* (score 0 after 50 records): one decision, one reason.
C28_Witness ==
    /\ Evaluated /\ ~InCoolDown
    /\ metrics.api_calls = 0
    /\ t_input.metrics.total_api_calls = 0
    /\ IsDefinite(t_input.drift_info)
    /\ ~t_input.drift_info.drift_detected
    /\ t_result.value.should_retrain
    /\ Len(t_result.value.reasons) = 1
    /\ Len(retraining_history) = 1

====
